---- MODULE Spec2Model ----
(***************************************************************************)
(* LSM303AGR driver, src/device_impl.rs: the Device Handle (Lsm303agr),    *)
(* its cached configuration registers and the register-level protocol of  *)
(* init, the status/measurement queries and destroy, over a transport     *)
(* whose transactions may fail.                                            *)
(*                                                                         *)
(* Granularity: one step per bus transaction, together with the local     *)
(* computation that follows it up to the next transaction or the return.  *)
(***************************************************************************)
EXTENDS Integers, Sequences, FiniteSets, TLC

VARIABLES
    handle,      \* the Lsm303agr struct: iface and the cached Config registers
    given,       \* the transport object(s) passed to the constructor
    returned,    \* what destroy handed back (<<>> before destroy)
    pc,          \* position of the caller: "idle", inside an operation, "destroyed"
    op,          \* operation in progress, or the last one completed
    txs,         \* bus transactions issued by that operation, in order
    result,      \* its Result: Pending while in progress
    entry,       \* the handle as it was when that operation was called
    prev,        \* the call before it: [op, txs, tag], txs without data and errors
    lastOk,      \* per register: {byte of the last write the transport accepted}
    lastFailed,  \* per register: {byte of a failed write not yet followed by a success}
    tempWrites,  \* writes to TEMP_CFG_REG_A seen on the bus: [issued, ok]
    ncalls,      \* operations called so far
    twin,        \* PairSpec: a second handle, built by new_with_spi: [handle, pc, txs, result]
    second,      \* SharedSpec: a second caller of the same handle: [pc, result]
    locked,      \* SharedSpec: the callers take an external lock around each call
    cfg,         \* ConfigSpec: a Config value
    derived,     \* ConfigSpec: the value returned by the last with_high/with_low
    lastOp       \* ConfigSpec: [kind, flag, arg] of that call

devVars == <<handle, given, returned, pc, op, txs, result, entry, prev,
             lastOk, lastFailed, tempWrites, ncalls, twin, second, locked>>
cfgVars == <<cfg, derived, lastOp>>
vars == <<handle, given, returned, pc, op, txs, result, entry, prev,
          lastOk, lastFailed, tempWrites, ncalls, twin, second, locked,
          cfg, derived, lastOp>>

\* ------------------------------------------------------------------ bounds

\* Operations called on one handle before the model stops calling.
MaxCalls == 3

\* ------------------------------------------------- Config and BitFlags

\* BitFlags: the bits the operations of device_impl.rs use.
ACCEL_BDU == 128
MAG_BDU == 16
TEMP_EN == 192

\* Identity constants of the two sub-devices.
WHO_AM_I_A_VAL == 51
WHO_AM_I_M_VAL == 64

RECURSIVE BitOr(_, _)
BitOr(a, b) ==
    IF a = 0 THEN b
    ELSE IF b = 0 THEN a
    ELSE (IF a % 2 = 1 \/ b % 2 = 1 THEN 1 ELSE 0) + 2 * BitOr(a \div 2, b \div 2)

RECURSIVE BitAnd(_, _)
BitAnd(a, b) ==
    IF a = 0 \/ b = 0 THEN 0
    ELSE (IF a % 2 = 1 /\ b % 2 = 1 THEN 1 ELSE 0) + 2 * BitAnd(a \div 2, b \div 2)

\* !mask on a u8
BitNot8(a) == 255 - a

Config(b) == [bits |-> b]

with_high(c, mask) == Config(BitOr(c.bits, mask))

\* Faulty variant of with_low: the mask is not inverted.
with_low_keeps_mask(c, mask) == Config(BitAnd(c.bits, mask))

with_low(c, mask) == Config(BitAnd(c.bits, BitNot8(mask)))

is_high(c, mask) == BitAnd(c.bits, mask) # 0

\* ------------------------------------------------------------ constructors

new_with_i2c(i2c) ==
    [ iface          |-> [kind |-> "i2c", i2c |-> i2c],
      ctrl_reg1_a    |-> Config(7),
      ctrl_reg4_a    |-> Config(0),
      cfg_reg_a_m    |-> Config(3),
      cfg_reg_b_m    |-> Config(0),
      cfg_reg_c_m    |-> Config(0),
      temp_cfg_reg_a |-> Config(0),
      accel_odr      |-> "None" ]

\* Faulty variant of new_with_spi: cfg_reg_a_m does not get its reset value.
new_with_spi_wrong_default(spi, chip_select_accel, chip_select_mag) ==
    [ iface          |-> [kind |-> "spi", spi |-> spi,
                          cs_xl |-> chip_select_accel, cs_mag |-> chip_select_mag],
      ctrl_reg1_a    |-> Config(7),
      ctrl_reg4_a    |-> Config(0),
      cfg_reg_a_m    |-> Config(0),
      cfg_reg_b_m    |-> Config(0),
      cfg_reg_c_m    |-> Config(0),
      temp_cfg_reg_a |-> Config(0),
      accel_odr      |-> "None" ]

new_with_spi(spi, chip_select_accel, chip_select_mag) ==
    [ iface          |-> [kind |-> "spi", spi |-> spi,
                          cs_xl |-> chip_select_accel, cs_mag |-> chip_select_mag],
      ctrl_reg1_a    |-> Config(7),
      ctrl_reg4_a    |-> Config(0),
      cfg_reg_a_m    |-> Config(3),
      cfg_reg_b_m    |-> Config(0),
      cfg_reg_c_m    |-> Config(0),
      temp_cfg_reg_a |-> Config(0),
      accel_odr      |-> "None" ]

destroy_i2c(iface) == iface.i2c

\* Faulty variant of destroy: the two select pins in the wrong order.
destroy_spi_swapped(iface) == <<iface.spi, iface.cs_mag, iface.cs_xl>>

destroy_spi(iface) == <<iface.spi, iface.cs_xl, iface.cs_mag>>

destroy(iface) ==
    IF iface.kind = "i2c" THEN destroy_i2c(iface) ELSE destroy_spi(iface)

\* Transport objects a caller may hand to a constructor.
I2cBuses == {"i2c0", "i2c1"}
SpiBuses == {"spi0"}
AccelSelectPins == {"cs_xl0"}
MagSelectPins == {"cs_mag0"}

\* --------------------------------------------------------------- transport

NoErr == [kind |-> "none", cause |-> "none"]
Comm(e) == [kind |-> "Comm", cause |-> e]
Pin(e) == [kind |-> "Pin", cause |-> e]

\* Error<CommE, PinE>: what a transaction on this realization can fail with.
TransportErrors(iface) ==
    IF iface.kind = "i2c"
    THEN {Comm("nack"), Comm("timeout")}
    ELSE {Comm("fault"), Pin("cs")}

\* Bytes a read of n registers may deliver.
ReadData(n) ==
    IF n = 1 THEN {<<0>>, <<WHO_AM_I_A_VAL>>, <<WHO_AM_I_M_VAL>>}
    ELSE IF n = 2 THEN {<<52, 18>>, <<0, 128>>}
    ELSE {<<1, 0, 2, 0, 3, 0>>, <<255, 255, 0, 128, 52, 18>>}

Failures(iface) ==
    {[ok |-> FALSE, data |-> <<>>, err |-> e] : e \in TransportErrors(iface)}

\* What the transport may answer to a write, and to a read of n registers.
WriteOutcomes(iface) ==
    {[ok |-> TRUE, data |-> <<>>, err |-> NoErr]} \cup Failures(iface)

ReadOutcomes(iface, n) ==
    {[ok |-> TRUE, data |-> d, err |-> NoErr] : d \in ReadData(n)} \cup Failures(iface)

\* One bus transaction as the register layer sees it.
Tx(dev, rw, reg, wr, out) ==
    [dev |-> dev, rw |-> rw, reg |-> reg, wr |-> wr,
     ok |-> out.ok, data |-> out.data, err |-> out.err]

write_accel_register(reg, byte, out) == Tx("accel", "write", reg, <<byte>>, out)
write_mag_register(reg, byte, out) == Tx("mag", "write", reg, <<byte>>, out)
read_accel_register(reg, out) == Tx("accel", "read", reg, <<>>, out)
read_mag_register(reg, out) == Tx("mag", "read", reg, <<>>, out)
read_accel_double_register(reg, out) == Tx("accel", "read2", reg, <<>>, out)
read_accel_3_double_registers(reg, out) == Tx("accel", "read6", reg, <<>>, out)

\* Two bytes, little-endian, as an i16.
I16(lo, hi) ==
    LET u == lo + 256 * hi IN IF u >= 32768 THEN u - 65536 ELSE u

\* ------------------------------------------------------------------ results

Pending == [tag |-> "Pending", val |-> <<>>, err |-> NoErr]
Ok(v) == [tag |-> "Ok", val |-> v, err |-> NoErr]
Err(e) == [tag |-> "Err", val |-> <<>>, err |-> e]

\* What one step of an operation does: the handle after it, the transactions it
\* issued, where the caller is next and the operation's Result so far.
Outcome(h, t, p, r) == [h |-> h, txs |-> t, pc |-> p, res |-> r]

\* --------------------------------------------------------------------- init

\* Faulty variant of init_accel: skips the write when the bit is cached high.
init_accel_memoized(h, out) ==
    LET reg4 == with_high(h.ctrl_reg4_a, ACCEL_BDU)
        tx == write_accel_register("CTRL_REG4_A", reg4.bits, out)
    IN  IF is_high(h.ctrl_reg4_a, ACCEL_BDU)
        THEN Outcome(h, <<>>, "init_mag", Pending)
        ELSE IF tx.ok
        THEN Outcome([h EXCEPT !.ctrl_reg4_a = reg4], <<tx>>, "init_mag", Pending)
        ELSE Outcome(h, <<tx>>, "idle", Err(tx.err))

\* Faulty variant of init_accel: a refused write clears the cached bit.
init_accel_clears_on_failure(h, out) ==
    LET reg4 == with_high(h.ctrl_reg4_a, ACCEL_BDU)
        tx == write_accel_register("CTRL_REG4_A", reg4.bits, out)
    IN  IF tx.ok
        THEN Outcome([h EXCEPT !.ctrl_reg4_a = reg4], <<tx>>, "init_mag", Pending)
        ELSE Outcome([h EXCEPT !.ctrl_reg4_a = with_low(h.ctrl_reg4_a, ACCEL_BDU)],
                     <<tx>>, "idle", Err(tx.err))

\* init, first half: CTRL_REG4_A with ACCEL_BDU, then the cache.
init_accel(h, out) ==
    LET reg4 == with_high(h.ctrl_reg4_a, ACCEL_BDU)
        tx == write_accel_register("CTRL_REG4_A", reg4.bits, out)
    IN  IF tx.ok
        THEN Outcome([h EXCEPT !.ctrl_reg4_a = reg4], <<tx>>, "init_mag", Pending)
        ELSE Outcome(h, <<tx>>, "idle", Err(tx.err))

\* Faulty variant of init_mag: the cache is assigned before the write is known
\* to have succeeded.
init_mag_cache_first(h, out) ==
    LET regc == with_high(h.cfg_reg_c_m, MAG_BDU)
        tx == write_mag_register("CFG_REG_C_M", regc.bits, out)
        h2 == [h EXCEPT !.cfg_reg_c_m = regc]
    IN  IF tx.ok
        THEN Outcome(h2, <<tx>>, "idle", Ok("()"))
        ELSE Outcome(h2, <<tx>>, "idle", Err(tx.err))

\* Faulty variant of init_mag: a refused write is reported as Ok(()).
init_mag_error_swallowed(h, out) ==
    LET regc == with_high(h.cfg_reg_c_m, MAG_BDU)
        tx == write_mag_register("CFG_REG_C_M", regc.bits, out)
    IN  IF tx.ok
        THEN Outcome([h EXCEPT !.cfg_reg_c_m = regc], <<tx>>, "idle", Ok("()"))
        ELSE Outcome(h, <<tx>>, "idle", Ok("()"))

\* Faulty variant of init_mag: over SPI the magnetometer register is reached
\* through the accelerometer's sub-device.
init_mag_transport_dependent(h, out) ==
    LET regc == with_high(h.cfg_reg_c_m, MAG_BDU)
        tx == IF h.iface.kind = "spi"
              THEN write_accel_register("CFG_REG_C_M", regc.bits, out)
              ELSE write_mag_register("CFG_REG_C_M", regc.bits, out)
    IN  IF tx.ok
        THEN Outcome([h EXCEPT !.cfg_reg_c_m = regc], <<tx>>, "idle", Ok("()"))
        ELSE Outcome(h, <<tx>>, "idle", Err(tx.err))

\* Faulty variant of init_mag: the accelerometer's flag is set in CFG_REG_C_M.
init_mag_wrong_flag(h, out) ==
    LET regc == with_high(h.cfg_reg_c_m, ACCEL_BDU)
        tx == write_mag_register("CFG_REG_C_M", regc.bits, out)
    IN  IF tx.ok
        THEN Outcome([h EXCEPT !.cfg_reg_c_m = regc], <<tx>>, "idle", Ok("()"))
        ELSE Outcome(h, <<tx>>, "idle", Err(tx.err))

\* Faulty variant of init_mag: the new value is assigned to cfg_reg_b_m.
init_mag_wrong_field(h, out) ==
    LET regc == with_high(h.cfg_reg_c_m, MAG_BDU)
        tx == write_mag_register("CFG_REG_C_M", regc.bits, out)
    IN  IF tx.ok
        THEN Outcome([h EXCEPT !.cfg_reg_b_m = regc], <<tx>>, "idle", Ok("()"))
        ELSE Outcome(h, <<tx>>, "idle", Err(tx.err))

\* init, second half: CFG_REG_C_M with MAG_BDU, then the cache, then Ok(()).
init_mag(h, out) ==
    LET regc == with_high(h.cfg_reg_c_m, MAG_BDU)
        tx == write_mag_register("CFG_REG_C_M", regc.bits, out)
    IN  IF tx.ok
        THEN Outcome([h EXCEPT !.cfg_reg_c_m = regc], <<tx>>, "idle", Ok("()"))
        ELSE Outcome(h, <<tx>>, "idle", Err(tx.err))

\* ------------------------------------------------------- temperature_status

\* Faulty variant of the check: never takes the early return.
enable_temperature_sensor_check_always_writes(h) ==
    Outcome(h, <<>>, "ts_write", Pending)

\* enable_temperature_sensor, the check: already enabled returns Ok(()) at once.
enable_temperature_sensor_check(h) ==
    IF is_high(h.temp_cfg_reg_a, TEMP_EN)
    THEN Outcome(h, <<>>, "ts_read", Pending)
    ELSE Outcome(h, <<>>, "ts_write", Pending)

\* Faulty variant of the write: the cache is assigned whatever the transport
\* answers.
enable_temperature_sensor_write_cache_first(h, out) ==
    LET temp_cfg_reg == with_high(h.temp_cfg_reg_a, TEMP_EN)
        tx == write_accel_register("TEMP_CFG_REG_A", temp_cfg_reg.bits, out)
        h2 == [h EXCEPT !.temp_cfg_reg_a = temp_cfg_reg]
    IN  IF tx.ok
        THEN Outcome(h2, <<tx>>, "ts_read", Pending)
        ELSE Outcome(h2, <<tx>>, "idle", Err(tx.err))

\* Faulty variant of the write: temperature_status goes on to the status read
\* after a refused enable write.
enable_temperature_sensor_write_error_ignored(h, out) ==
    LET temp_cfg_reg == with_high(h.temp_cfg_reg_a, TEMP_EN)
        tx == write_accel_register("TEMP_CFG_REG_A", temp_cfg_reg.bits, out)
    IN  IF tx.ok
        THEN Outcome([h EXCEPT !.temp_cfg_reg_a = temp_cfg_reg], <<tx>>, "ts_read", Pending)
        ELSE Outcome(h, <<tx>>, "ts_read", Pending)

\* Faulty variant of the enable write: the accepted value is never cached.
enable_temperature_sensor_write_uncached(h, out) ==
    LET temp_cfg_reg == with_high(h.temp_cfg_reg_a, TEMP_EN)
        tx == write_accel_register("TEMP_CFG_REG_A", temp_cfg_reg.bits, out)
    IN  IF tx.ok
        THEN Outcome(h, <<tx>>, "ts_read", Pending)
        ELSE Outcome(h, <<tx>>, "idle", Err(tx.err))

\* enable_temperature_sensor, the write, and the ? of temperature_status on it.
enable_temperature_sensor_write(h, out) ==
    LET temp_cfg_reg == with_high(h.temp_cfg_reg_a, TEMP_EN)
        tx == write_accel_register("TEMP_CFG_REG_A", temp_cfg_reg.bits, out)
    IN  IF tx.ok
        THEN Outcome([h EXCEPT !.temp_cfg_reg_a = temp_cfg_reg], <<tx>>, "ts_read", Pending)
        ELSE Outcome(h, <<tx>>, "idle", Err(tx.err))

TemperatureStatus_new(byte) == [temperature_status |-> byte]

\* Faulty variant of the status read: a failed read takes the enable back.
temperature_status_read_rollback(h, out) ==
    LET tx == read_accel_register("STATUS_REG_AUX_A", out)
    IN  IF tx.ok
        THEN Outcome(h, <<tx>>, "idle", Ok(TemperatureStatus_new(tx.data[1])))
        ELSE Outcome([h EXCEPT !.temp_cfg_reg_a = with_low(h.temp_cfg_reg_a, TEMP_EN)],
                     <<tx>>, "idle", Err(tx.err))

\* temperature_status after the enable: read STATUS_REG_AUX_A and wrap it.
temperature_status_read(h, out) ==
    LET tx == read_accel_register("STATUS_REG_AUX_A", out)
    IN  IF tx.ok
        THEN Outcome(h, <<tx>>, "idle", Ok(TemperatureStatus_new(tx.data[1])))
        ELSE Outcome(h, <<tx>>, "idle", Err(tx.err))

\* ---------------------------------------------------------- read-only queries

Status_new(byte) == [status |-> byte]

accel_status(h, out) ==
    LET tx == read_accel_register("STATUS_REG_A", out)
    IN  IF tx.ok
        THEN Outcome(h, <<tx>>, "idle", Ok(Status_new(tx.data[1])))
        ELSE Outcome(h, <<tx>>, "idle", Err(tx.err))

mag_status(h, out) ==
    LET tx == read_mag_register("STATUS_REG_M", out)
    IN  IF tx.ok
        THEN Outcome(h, <<tx>>, "idle", Ok(Status_new(tx.data[1])))
        ELSE Outcome(h, <<tx>>, "idle", Err(tx.err))

\* The cached mode and scale an Acceleration carries: functions of the cache.
get_accel_mode(h) == [ctrl_reg1_a |-> h.ctrl_reg1_a.bits, ctrl_reg4_a |-> h.ctrl_reg4_a.bits]
get_accel_scale(h) == [ctrl_reg4_a |-> h.ctrl_reg4_a.bits]

acceleration(h, out) ==
    LET tx == read_accel_3_double_registers("OUT_X_L_A", out)
        d == tx.data
    IN  IF tx.ok
        THEN Outcome(h, <<tx>>, "idle",
                     Ok([x |-> I16(d[1], d[2]), y |-> I16(d[3], d[4]), z |-> I16(d[5], d[6]),
                         mode |-> get_accel_mode(h), scale |-> get_accel_scale(h)]))
        ELSE Outcome(h, <<tx>>, "idle", Err(tx.err))

\* Faulty variant of temperature: enables the sensor as temperature_status does.
temperature_enabling_first(h, out) ==
    LET temp_cfg_reg == with_high(h.temp_cfg_reg_a, TEMP_EN)
        tx == write_accel_register("TEMP_CFG_REG_A", temp_cfg_reg.bits, out)
    IN  IF tx.ok
        THEN Outcome([h EXCEPT !.temp_cfg_reg_a = temp_cfg_reg], <<tx>>, "idle", Ok([raw |-> 0]))
        ELSE Outcome(h, <<tx>>, "idle", Err(tx.err))

temperature(h, out) ==
    LET tx == read_accel_double_register("OUT_TEMP_L_A", out)
    IN  IF tx.ok
        THEN Outcome(h, <<tx>>, "idle", Ok([raw |-> I16(tx.data[1], tx.data[2])]))
        ELSE Outcome(h, <<tx>>, "idle", Err(tx.err))

accelerometer_id(h, out) ==
    LET tx == read_accel_register("WHO_AM_I_A", out)
    IN  IF tx.ok
        THEN Outcome(h, <<tx>>, "idle", Ok(tx.data[1]))
        ELSE Outcome(h, <<tx>>, "idle", Err(tx.err))

\* Faulty variant: compares with the magnetometer's identity constant.
accelerometer_is_detected_wrong_constant(h, out) ==
    LET id == accelerometer_id(h, out)
    IN  IF id.res.tag = "Ok"
        THEN [id EXCEPT !.res = Ok(id.res.val = WHO_AM_I_M_VAL)]
        ELSE id

accelerometer_is_detected(h, out) ==
    LET id == accelerometer_id(h, out)
    IN  IF id.res.tag = "Ok"
        THEN [id EXCEPT !.res = Ok(id.res.val = WHO_AM_I_A_VAL)]
        ELSE id

magnetometer_id(h, out) ==
    LET tx == read_mag_register("WHO_AM_I_M", out)
    IN  IF tx.ok
        THEN Outcome(h, <<tx>>, "idle", Ok(tx.data[1]))
        ELSE Outcome(h, <<tx>>, "idle", Err(tx.err))

magnetometer_is_detected(h, out) ==
    LET id == magnetometer_id(h, out)
    IN  IF id.res.tag = "Ok"
        THEN [id EXCEPT !.res = Ok(id.res.val = WHO_AM_I_M_VAL)]
        ELSE id

\* ------------------------------------------------------------ state machine

Ops == {"init", "temperature_status", "accel_status", "acceleration", "mag_status",
        "accelerometer_id", "accelerometer_is_detected", "magnetometer_id",
        "magnetometer_is_detected", "temperature"}

\* The queries that only read.
ReadOnlyOps == Ops \ {"init", "temperature_status"}

\* Where an operation starts.
EntryPc(o) ==
    IF o = "init" THEN "init_accel"
    ELSE IF o = "temperature_status" THEN "ts_check"
    ELSE o

\* The registers the handle caches and writes.
CachedRegs == {"CTRL_REG4_A", "CFG_REG_C_M", "TEMP_CFG_REG_A"}

CacheOf(h, reg) ==
    IF reg = "CTRL_REG4_A" THEN h.ctrl_reg4_a
    ELSE IF reg = "CFG_REG_C_M" THEN h.cfg_reg_c_m
    ELSE h.temp_cfg_reg_a

NoCall == [op |-> "none", txs |-> <<>>, tag |-> "Pending"]

\* What is remembered of a transaction once its call is over.
Bare(t) ==
    [i \in 1..Len(t) |->
        [dev |-> t[i].dev, rw |-> t[i].rw, reg |-> t[i].reg, wr |-> t[i].wr, ok |-> t[i].ok]]

\* The transactions of t that are writes to reg, accepted (ok) or refused.
WritesTo(t, reg, ok) ==
    {i \in 1..Len(t) : t[i].rw = "write" /\ t[i].reg = reg /\ t[i].ok = ok}

\* The constructed handle: no call made, nothing on the bus yet.
Constructed(h, args) ==
    /\ handle = h
    /\ given = args
    /\ returned = <<>>
    /\ pc = "idle"
    /\ op = "none"
    /\ txs = <<>>
    /\ result = Pending
    /\ entry = h
    /\ prev = NoCall
    /\ lastOk = [r \in CachedRegs |-> {}]
    /\ lastFailed = [r \in CachedRegs |-> {}]
    /\ tempWrites = [issued |-> 0, ok |-> 0]
    /\ ncalls = 0

\* A handle and the caller's position in an operation on it.
Twin(h) == [handle |-> h, pc |-> "idle", txs |-> <<>>, result |-> Pending]

NoSecond == [pc |-> "idle", result |-> Pending]

\* One handle with one owner (&mut self): no other handle is followed, and no
\* second caller gets in.
Alone ==
    /\ twin = Twin(handle)
    /\ second = NoSecond
    /\ locked = TRUE

CfgIdle ==
    /\ cfg = Config(0)
    /\ derived = Config(0)
    /\ lastOp = [kind |-> "none", flag |-> 0, arg |-> Config(0)]

Init ==
    /\ CfgIdle
    /\ \/ \E i2c \in I2cBuses : Constructed(new_with_i2c(i2c), i2c)
       \/ \E spi \in SpiBuses, cs_xl \in AccelSelectPins, cs_mag \in MagSelectPins :
              Constructed(new_with_spi(spi, cs_xl, cs_mag), <<spi, cs_xl, cs_mag>>)
    /\ Alone

\* Operation o is entered on the idle handle.
Enter(o) ==
    /\ pc = "idle"
    /\ ncalls < MaxCalls
    /\ pc' = EntryPc(o)
    /\ op' = o
    /\ txs' = <<>>
    /\ result' = Pending
    /\ entry' = handle
    /\ prev' = [op |-> op, txs |-> Bare(txs), tag |-> result.tag]
    /\ ncalls' = ncalls + 1
    /\ UNCHANGED <<handle, given, returned, lastOk, lastFailed, tempWrites>>
    /\ UNCHANGED cfgVars

\* The caller calls operation o on the idle handle.
Call(o) ==
    /\ Enter(o)
    /\ UNCHANGED <<twin, second, locked>>

\* The bus records the transactions step r issued.
BusRecord(r) ==
    /\ lastOk' = [reg \in CachedRegs |->
                    IF WritesTo(r.txs, reg, TRUE) # {}
                    THEN {r.txs[i].wr[1] : i \in WritesTo(r.txs, reg, TRUE)}
                    ELSE lastOk[reg]]
    /\ lastFailed' = [reg \in CachedRegs |->
                    IF WritesTo(r.txs, reg, TRUE) # {} THEN {}
                    ELSE IF WritesTo(r.txs, reg, FALSE) # {}
                    THEN {r.txs[i].wr[1] : i \in WritesTo(r.txs, reg, FALSE)}
                    ELSE lastFailed[reg]]
    /\ tempWrites' =
         [issued |-> tempWrites.issued
                       + Cardinality(WritesTo(r.txs, "TEMP_CFG_REG_A", TRUE))
                       + Cardinality(WritesTo(r.txs, "TEMP_CFG_REG_A", FALSE)),
          ok |-> tempWrites.ok + Cardinality(WritesTo(r.txs, "TEMP_CFG_REG_A", TRUE))]

\* One step r of the operation in progress takes effect on the handle and on
\* the bus.
Effect(r) ==
    /\ handle' = r.h
    /\ txs' = txs \o r.txs
    /\ pc' = r.pc
    /\ result' = r.res
    /\ BusRecord(r)
    /\ UNCHANGED <<given, returned, op, entry, prev, ncalls>>
    /\ UNCHANGED cfgVars

Commit(r) ==
    /\ Effect(r)
    /\ UNCHANGED <<twin, second, locked>>

InitAccel ==
    /\ pc = "init_accel"
    /\ \E out \in WriteOutcomes(handle.iface) : Commit(init_accel(handle, out))

InitMag ==
    /\ pc = "init_mag"
    /\ \E out \in WriteOutcomes(handle.iface) : Commit(init_mag(handle, out))

EnableCheck ==
    /\ pc = "ts_check"
    /\ Commit(enable_temperature_sensor_check(handle))

EnableWrite ==
    /\ pc = "ts_write"
    /\ \E out \in WriteOutcomes(handle.iface) :
           Commit(enable_temperature_sensor_write(handle, out))

TemperatureStatusRead ==
    /\ pc = "ts_read"
    /\ \E out \in ReadOutcomes(handle.iface, 1) : Commit(temperature_status_read(handle, out))

AccelStatus ==
    /\ pc = "accel_status"
    /\ \E out \in ReadOutcomes(handle.iface, 1) : Commit(accel_status(handle, out))

Acceleration ==
    /\ pc = "acceleration"
    /\ \E out \in ReadOutcomes(handle.iface, 6) : Commit(acceleration(handle, out))

MagStatus ==
    /\ pc = "mag_status"
    /\ \E out \in ReadOutcomes(handle.iface, 1) : Commit(mag_status(handle, out))

AccelerometerId ==
    /\ pc = "accelerometer_id"
    /\ \E out \in ReadOutcomes(handle.iface, 1) : Commit(accelerometer_id(handle, out))

AccelerometerIsDetected ==
    /\ pc = "accelerometer_is_detected"
    /\ \E out \in ReadOutcomes(handle.iface, 1) :
           Commit(accelerometer_is_detected(handle, out))

MagnetometerId ==
    /\ pc = "magnetometer_id"
    /\ \E out \in ReadOutcomes(handle.iface, 1) : Commit(magnetometer_id(handle, out))

MagnetometerIsDetected ==
    /\ pc = "magnetometer_is_detected"
    /\ \E out \in ReadOutcomes(handle.iface, 1) :
           Commit(magnetometer_is_detected(handle, out))

TemperatureRead ==
    /\ pc = "temperature"
    /\ \E out \in ReadOutcomes(handle.iface, 2) : Commit(temperature(handle, out))

\* destroy consumes the idle handle and hands the transport back.
Destroy ==
    /\ pc = "idle"
    /\ pc' = "destroyed"
    /\ returned' = destroy(handle.iface)
    /\ UNCHANGED <<handle, given, op, txs, result, entry, prev,
                   lastOk, lastFailed, tempWrites, ncalls, twin, second, locked>>
    /\ UNCHANGED cfgVars

\* A step inside an operation: the transport answers and the operation goes on.
Step ==
    \/ InitAccel
    \/ InitMag
    \/ EnableCheck
    \/ EnableWrite
    \/ TemperatureStatusRead
    \/ AccelStatus
    \/ Acceleration
    \/ MagStatus
    \/ AccelerometerId
    \/ AccelerometerIsDetected
    \/ MagnetometerId
    \/ MagnetometerIsDetected
    \/ TemperatureRead

Next ==
    \/ \E o \in Ops : Call(o)
    \/ Step
    \/ Destroy

Spec == Init /\ [][Next]_vars

\* The transport answers every transaction it is given (blocking calls).
FairSpec == Spec /\ WF_vars(Step)

\* ------------------------------------------- two handles, one per transport

\* What the transport may answer at position p of an operation; the check of
\* the cached TEMP_EN asks the transport nothing.
Answers(p, iface) ==
    IF p \in {"init_accel", "init_mag", "ts_write"} THEN WriteOutcomes(iface)
    ELSE IF p = "ts_check" THEN {[ok |-> TRUE, data |-> <<>>, err |-> NoErr]}
    ELSE IF p = "acceleration" THEN ReadOutcomes(iface, 6)
    ELSE IF p = "temperature" THEN ReadOutcomes(iface, 2)
    ELSE ReadOutcomes(iface, 1)

\* The step the code takes at position p on the handle h.
StepOf(p, h, out) ==
    CASE p = "init_accel" -> init_accel(h, out)
      [] p = "init_mag" -> init_mag(h, out)
      [] p = "ts_check" -> enable_temperature_sensor_check(h)
      [] p = "ts_write" -> enable_temperature_sensor_write(h, out)
      [] p = "ts_read" -> temperature_status_read(h, out)
      [] p = "accel_status" -> accel_status(h, out)
      [] p = "acceleration" -> acceleration(h, out)
      [] p = "mag_status" -> mag_status(h, out)
      [] p = "accelerometer_id" -> accelerometer_id(h, out)
      [] p = "accelerometer_is_detected" -> accelerometer_is_detected(h, out)
      [] p = "magnetometer_id" -> magnetometer_id(h, out)
      [] p = "magnetometer_is_detected" -> magnetometer_is_detected(h, out)
      [] p = "temperature" -> temperature(h, out)

\* Two devices: handle is built by new_with_i2c, twin.handle by new_with_spi.
PairInit ==
    /\ CfgIdle
    /\ \E i2c \in I2cBuses : Constructed(new_with_i2c(i2c), i2c)
    /\ \E spi \in SpiBuses, cs_xl \in AccelSelectPins, cs_mag \in MagSelectPins :
           twin = Twin(new_with_spi(spi, cs_xl, cs_mag))
    /\ second = NoSecond
    /\ locked = TRUE

\* The same operation is called on both handles.
PairCall(o) ==
    /\ twin.pc = "idle"
    /\ Enter(o)
    /\ twin' = [twin EXCEPT !.pc = EntryPc(o), !.txs = <<>>, !.result = Pending]
    /\ UNCHANGED <<second, locked>>

\* Both operations take their next step; the two transports succeed or fail
\* alike and deliver the same bytes, each failing with an error of its own.
PairStep ==
    /\ pc \notin {"idle", "destroyed"}
    /\ twin.pc # "idle"
    /\ \E a \in Answers(pc, handle.iface), b \in Answers(twin.pc, twin.handle.iface) :
          /\ a.ok = b.ok
          /\ a.data = b.data
          /\ Effect(StepOf(pc, handle, a))
          /\ LET r == StepOf(twin.pc, twin.handle, b)
             IN  twin' = [handle |-> r.h, pc |-> r.pc,
                          txs |-> twin.txs \o r.txs, result |-> r.res]
    /\ UNCHANGED <<second, locked>>

PairNext ==
    \/ \E o \in Ops : PairCall(o)
    \/ PairStep

PairSpec == PairInit /\ [][PairNext]_vars

\* ------------------------------------------------ one handle, two callers

\* A handle reached by two callers, each calling temperature_status: with
\* locked they take turns, a whole call at a time; without it their bus
\* transactions interleave.
SharedInit ==
    /\ CfgIdle
    /\ \/ \E i2c \in I2cBuses : Constructed(new_with_i2c(i2c), i2c)
       \/ \E spi \in SpiBuses, cs_xl \in AccelSelectPins, cs_mag \in MagSelectPins :
              Constructed(new_with_spi(spi, cs_xl, cs_mag), <<spi, cs_xl, cs_mag>>)
    /\ twin = Twin(handle)
    /\ second = NoSecond
    /\ locked \in BOOLEAN

FirstCall ==
    /\ locked => second.pc = "idle"
    /\ Call("temperature_status")

FirstStep ==
    \/ EnableCheck
    \/ EnableWrite
    \/ TemperatureStatusRead

SecondCall ==
    /\ second.pc = "idle"
    /\ locked => pc = "idle"
    /\ ncalls < MaxCalls
    /\ second' = [pc |-> EntryPc("temperature_status"), result |-> Pending]
    /\ ncalls' = ncalls + 1
    /\ UNCHANGED <<handle, given, returned, pc, op, txs, result, entry, prev,
                   lastOk, lastFailed, tempWrites, twin, locked>>
    /\ UNCHANGED cfgVars

SecondStep ==
    /\ second.pc # "idle"
    /\ \E out \in Answers(second.pc, handle.iface) :
          LET r == StepOf(second.pc, handle, out)
          IN  /\ handle' = r.h
              /\ second' = [pc |-> r.pc, result |-> r.res]
              /\ BusRecord(r)
    /\ UNCHANGED <<given, returned, pc, op, txs, result, entry, prev, ncalls,
                   twin, locked>>
    /\ UNCHANGED cfgVars

SharedNext ==
    \/ FirstCall
    \/ FirstStep
    \/ SecondCall
    \/ SecondStep

SharedSpec == SharedInit /\ [][SharedNext]_vars

\* -------------------------------------------------- Config values on their own

\* The flag masks a Config is asked about: each single bit, and TEMP_EN.
Flags == {2 ^ i : i \in 0..7} \cup {TEMP_EN}

CfgInit ==
    /\ Constructed(new_with_i2c("i2c0"), "i2c0")
    /\ Alone
    /\ cfg \in {Config(0), Config(3), Config(7)}
    /\ derived = cfg
    /\ lastOp = [kind |-> "none", flag |-> 0, arg |-> cfg]

\* c.with_high(f): returns a new value, c itself is a copy and stays as it was.
CfgWithHigh(f) ==
    /\ derived' = with_high(cfg, f)
    /\ lastOp' = [kind |-> "with_high", flag |-> f, arg |-> cfg]
    /\ UNCHANGED cfg
    /\ UNCHANGED devVars

CfgWithLow(f) ==
    /\ derived' = with_low(cfg, f)
    /\ lastOp' = [kind |-> "with_low", flag |-> f, arg |-> cfg]
    /\ UNCHANGED cfg
    /\ UNCHANGED devVars

\* The caller assigns the returned value back (self.ctrl_reg4_a = reg4).
CfgAssign ==
    /\ lastOp.kind \in {"with_high", "with_low"}
    /\ cfg' = derived
    /\ lastOp' = [kind |-> "assign", flag |-> lastOp.flag, arg |-> derived]
    /\ UNCHANGED derived
    /\ UNCHANGED devVars

CfgNext ==
    \/ \E f \in Flags : CfgWithHigh(f)
    \/ \E f \in Flags : CfgWithLow(f)
    \/ CfgAssign

ConfigSpec == CfgInit /\ [][CfgNext]_vars

\* ------------------------------------------------------------------- claims

\* The handle as its constructor built it.
AsConstructed ==
    IF handle.iface.kind = "i2c"
    THEN new_with_i2c(given)
    ELSE new_with_spi(given[1], given[2], given[3])

\* This step issued one more transaction of the operation in progress.
Issued == Len(txs') = Len(txs) + 1
NewTx == txs'[Len(txs')]
IssuedWriteTo(reg) == Issued /\ NewTx.rw = "write" /\ NewTx.reg = reg

\* A transaction without the transport's answer: sub-device, direction,
\* register, written byte.
Sig(t) ==
    [i \in 1..Len(t) |-> [dev |-> t[i].dev, rw |-> t[i].rw, reg |-> t[i].reg, wr |-> t[i].wr]]

ReadOf(dev, reg) == <<[dev |-> dev, rw |-> "read", reg |-> reg, wr |-> <<>>]>>

IsPrefix(a, b) == Len(a) <= Len(b) /\ \A i \in 1..Len(a) : a[i] = b[i]

Done(o) == pc = "idle" /\ op = o

\* C1: in every reachable state each cached register (ctrl_reg4_a, cfg_reg_c_m,
\* temp_cfg_reg_a) holds the byte of the last write to its physical register
\* that the transport accepted, or its construction default if none was.
C1_CacheIsLastAcceptedWrite ==
    \A r \in CachedRegs :
        CacheOf(handle, r).bits \in
            (IF lastOk[r] = {} THEN {CacheOf(AsConstructed, r).bits} ELSE lastOk[r])

\* C1 witness: one register written, another refused and still at its default.
C1_Witness ==
    /\ lastOk["CTRL_REG4_A"] # {}
    /\ lastOk["CFG_REG_C_M"] = {}
    /\ lastFailed["CFG_REG_C_M"] # {}
    /\ lastOk["TEMP_CFG_REG_A"] # {}

\* C2: a refused write leaves the handle's cache as it was, and the next write
\* to that register carries the byte the refused one carried; when it is
\* accepted the cache holds exactly that byte.
C2_FailedWriteLeavesNoTrace ==
    [][\A r \in CachedRegs :
          /\ (IssuedWriteTo(r) /\ ~NewTx.ok) => handle' = handle
          /\ (IssuedWriteTo(r) /\ lastFailed[r] # {}) =>
                /\ NewTx.wr[1] \in lastFailed[r]
                /\ NewTx.ok => CacheOf(handle', r).bits = NewTx.wr[1]]_vars

\* C2 witness: init refused at its first write, then called again with success.
C2_Witness ==
    /\ Done("init") /\ result.tag = "Ok"
    /\ prev.op = "init" /\ prev.tag = "Err" /\ Len(prev.txs) = 1

\* The two writes of a complete init.
TwoInitWrites(t) ==
    /\ Len(t) = 2
    /\ t[1].dev = "accel" /\ t[1].rw = "write" /\ t[1].reg = "CTRL_REG4_A"
    /\ t[2].dev = "mag" /\ t[2].rw = "write" /\ t[2].reg = "CFG_REG_C_M"

BothBduHigh ==
    is_high(handle.ctrl_reg4_a, ACCEL_BDU) /\ is_high(handle.cfg_reg_c_m, MAG_BDU)

\* C3 as stated: every completed init issued the two writes, the same ones as
\* an init right before it, and left both block-data-update bits cached high.
C3_AsStated ==
    Done("init") =>
        /\ TwoInitWrites(txs)
        /\ BothBduHigh
        /\ prev.op = "init" => Sig(prev.txs) = Sig(txs)

\* C3 amended: every init that returns Ok issued the two writes and left both
\* block-data-update bits cached high; an init right before it issued the same
\* writes up to its failure, and the same two when it returned Ok as well.
C3_SuccessfulInitRepeats ==
    (Done("init") /\ result.tag = "Ok") =>
        /\ TwoInitWrites(txs)
        /\ BothBduHigh
        /\ prev.op = "init" => IsPrefix(Sig(prev.txs), Sig(txs))
        /\ (prev.op = "init" /\ prev.tag = "Ok") => Sig(prev.txs) = Sig(txs)

\* C3 witness: two successful inits in succession, the second with both bits
\* already cached high.
C3_Witness ==
    /\ Done("init") /\ result.tag = "Ok"
    /\ prev.op = "init" /\ prev.tag = "Ok"
    /\ is_high(entry.ctrl_reg4_a, ACCEL_BDU) /\ is_high(entry.cfg_reg_c_m, MAG_BDU)

\* C4 as stated: once temperature_status has been called, exactly one write to
\* the temperature-enable register has been issued, however many calls were
\* made; a call made with the enable bit cached high issues none.
C4_AsStated ==
    /\ Done("temperature_status") => tempWrites.issued = 1
    /\ (op = "temperature_status" /\ is_high(entry.temp_cfg_reg_a, TEMP_EN)) =>
           WritesTo(txs, "TEMP_CFG_REG_A", TRUE) \cup WritesTo(txs, "TEMP_CFG_REG_A", FALSE) = {}

\* C4 amended: exactly one enable write is accepted, however many
\* temperature_status calls are made: the cached bit is high exactly when one
\* has been; a call made with the bit cached low issues the write (again, if an
\* earlier one was refused), a call made with it cached high issues none, and a
\* call that returns Ok leaves exactly one accepted write behind.
C4_OneAcceptedEnableWrite ==
    /\ tempWrites.ok <= 1
    /\ is_high(handle.temp_cfg_reg_a, TEMP_EN) <=> tempWrites.ok = 1
    /\ (op = "temperature_status" /\ is_high(entry.temp_cfg_reg_a, TEMP_EN)) =>
           WritesTo(txs, "TEMP_CFG_REG_A", TRUE) \cup WritesTo(txs, "TEMP_CFG_REG_A", FALSE) = {}
    /\ (op = "temperature_status" /\ ~is_high(entry.temp_cfg_reg_a, TEMP_EN)
           /\ pc \in {"ts_read", "idle"}) =>
           Cardinality(WritesTo(txs, "TEMP_CFG_REG_A", TRUE)
                       \cup WritesTo(txs, "TEMP_CFG_REG_A", FALSE)) = 1
    /\ (Done("temperature_status") /\ result.tag = "Ok") => tempWrites.ok = 1

\* C4 witness: a refused enable write, an accepted one on the next call, and a
\* third call that issues none.
C4_Witness ==
    /\ Done("temperature_status")
    /\ is_high(entry.temp_cfg_reg_a, TEMP_EN)
    /\ tempWrites = [issued |-> 2, ok |-> 1]

\* C5: STATUS_REG_AUX_A is read only by temperature_status, only with TEMP_EN
\* cached high and accepted by the device, and only after every earlier
\* transaction of the call succeeded: a refused enable write ends the call.
C5_StatusReadOnlyWhenEnabled ==
    /\ pc = "ts_read" => is_high(handle.temp_cfg_reg_a, TEMP_EN)
    /\ \A i \in 1..Len(txs) :
          txs[i].reg = "STATUS_REG_AUX_A" =>
              /\ op = "temperature_status"
              /\ txs[i].rw = "read"
              /\ is_high(handle.temp_cfg_reg_a, TEMP_EN)
              /\ \E b \in lastOk["TEMP_CFG_REG_A"] : is_high(Config(b), TEMP_EN)
              /\ \A j \in 1..(i - 1) : txs[j].ok
    /\ (Done("temperature_status") /\ ~txs[1].ok /\ txs[1].rw = "write") => Len(txs) = 1

\* C5 witness: a call that enabled the sensor and then read its status.
C5_Witness ==
    /\ Done("temperature_status")
    /\ Len(txs) = 2
    /\ txs[1].rw = "write" /\ txs[1].ok
    /\ txs[2].reg = "STATUS_REG_AUX_A"

Busy == pc \notin {"idle", "destroyed"}

\* What C6 says of every state: only the last transaction of a call can have
\* failed, it ends the call with exactly its error, nothing is issued twice,
\* and no call issues more than its fixed number of transactions.
C6_FirstFailureEndsCall ==
    /\ \A i \in 1..(Len(txs) - 1) : txs[i].ok
    /\ (Len(txs) > 0 /\ ~txs[Len(txs)].ok) =>
           ~Busy /\ result.tag = "Err" /\ result.err = txs[Len(txs)].err
    /\ result.tag = "Err" =>
           Len(txs) > 0 /\ ~txs[Len(txs)].ok /\ result.err = txs[Len(txs)].err
    /\ \A i, j \in 1..Len(txs) : i # j => Sig(txs)[i] # Sig(txs)[j]
    /\ op \in {"init", "temperature_status"} => Len(txs) <= 2
    /\ op \in ReadOnlyOps => Len(txs) <= 1
    /\ (op \in ReadOnlyOps /\ ~Busy) => Len(txs) = 1
    /\ (op # "none" /\ ~Busy) => result.tag \in {"Ok", "Err"}
    /\ Busy => result.tag = "Pending"

\* C6: errors are never retried and propagate unchanged (the invariant above),
\* and every call returns.
C6_NoRetryAndReturns ==
    /\ []C6_FirstFailureEndsCall
    /\ Busy ~> ~Busy

\* C6 witness: temperature_status ended by a failed status read after an
\* accepted enable write.
C6_Witness ==
    /\ Done("temperature_status")
    /\ Len(txs) = 2
    /\ result.tag = "Err" /\ result.err.kind = "Pin"

\* C7: while a read-only query is the operation called, the handle's cache and
\* the device's registers stay as they are and no write is issued, whatever
\* the transport answers.
C7_QueriesDoNotWrite ==
    [][op' \in ReadOnlyOps =>
          /\ handle' = handle
          /\ lastOk' = lastOk
          /\ tempWrites' = tempWrites
          /\ \A i \in 1..Len(txs') : txs'[i].rw # "write"]_vars

\* C7 witness: temperature_status wrote, then a read-only query failed.
C7_Witness ==
    /\ prev.op = "temperature_status"
    /\ WritesTo(prev.txs, "TEMP_CFG_REG_A", TRUE) # {}
    /\ Done("temperature") /\ result.tag = "Err"

\* C8: accelerometer_is_detected reads WHO_AM_I_A, the register accelerometer_id
\* returns, and is Ok(true) exactly when that byte is WHO_AM_I_A_VAL, Ok(false)
\* on any other byte, and Err exactly when the read failed; likewise the
\* magnetometer with WHO_AM_I_M and WHO_AM_I_M_VAL.
C8_DetectedIffIdMatches ==
    /\ Done("accelerometer_id") =>
          /\ Sig(txs) = ReadOf("accel", "WHO_AM_I_A")
          /\ txs[1].ok => result.tag = "Ok" /\ result.val = txs[1].data[1]
    /\ Done("accelerometer_is_detected") =>
          /\ Sig(txs) = ReadOf("accel", "WHO_AM_I_A")
          /\ txs[1].ok <=> result.tag = "Ok"
          /\ ~txs[1].ok <=> result.tag = "Err"
          /\ txs[1].ok => (result.val <=> txs[1].data[1] = WHO_AM_I_A_VAL)
    /\ Done("magnetometer_id") =>
          /\ Sig(txs) = ReadOf("mag", "WHO_AM_I_M")
          /\ txs[1].ok => result.tag = "Ok" /\ result.val = txs[1].data[1]
    /\ Done("magnetometer_is_detected") =>
          /\ Sig(txs) = ReadOf("mag", "WHO_AM_I_M")
          /\ txs[1].ok <=> result.tag = "Ok"
          /\ ~txs[1].ok <=> result.tag = "Err"
          /\ txs[1].ok => (result.val <=> txs[1].data[1] = WHO_AM_I_M_VAL)

\* C8 witness: the accelerometer answers with another identity: Ok(false).
C8_Witness ==
    /\ Done("accelerometer_is_detected")
    /\ result.tag = "Ok"
    /\ ~result.val
    /\ txs[1].data[1] = WHO_AM_I_M_VAL

\* C9: destroy hands back exactly what the constructor was given, in the
\* constructor's order, whatever ran before, and issues no transaction.
C9_DestroyReturnsGiven ==
    [][(pc' = "destroyed" /\ pc # "destroyed") =>
          /\ returned' = given
          /\ txs' = txs
          /\ lastOk' = lastOk
          /\ lastFailed' = lastFailed
          /\ tempWrites' = tempWrites]_vars

\* C9 witness: an SPI handle with two different select pins destroyed after a
\* failed operation.
C9_Witness ==
    /\ pc = "destroyed"
    /\ handle.iface.kind = "spi"
    /\ handle.iface.cs_xl # handle.iface.cs_mag
    /\ result.tag = "Err"

Bit(b, i) == (b \div (2 ^ i)) % 2

\* C10: with_high(f) sets exactly the bits of f and with_low(f) clears exactly
\* them, bit by bit, over every sequence of the two; is_high(f) is then true,
\* respectively false, every flag disjoint from f answers as before, and the
\* value the operation was applied to is as it was.
C10_ConfigBitAlgebra ==
    /\ derived.bits \in 0..255
    /\ lastOp.kind = "with_high" =>
          /\ \A i \in 0..7 : Bit(derived.bits, i) = 1 <=>
                 (Bit(lastOp.arg.bits, i) = 1 \/ Bit(lastOp.flag, i) = 1)
          /\ is_high(derived, lastOp.flag)
    /\ lastOp.kind = "with_low" =>
          /\ \A i \in 0..7 : Bit(derived.bits, i) = 1 <=>
                 (Bit(lastOp.arg.bits, i) = 1 /\ Bit(lastOp.flag, i) = 0)
          /\ ~is_high(derived, lastOp.flag)
    /\ lastOp.kind \in {"with_high", "with_low"} =>
          /\ \A g \in Flags : BitAnd(g, lastOp.flag) = 0 =>
                 (is_high(derived, g) <=> is_high(lastOp.arg, g))
          /\ cfg = lastOp.arg

\* C10 witness: a bit cleared on a value reached by a sequence of both
\* operations, other bits still set.
C10_Witness ==
    /\ lastOp.kind = "with_low"
    /\ lastOp.arg.bits = 255
    /\ lastOp.flag = TEMP_EN
    /\ derived.bits = 63

\* The cached registers of a handle, without its transport.
CacheFields(h) ==
    [ctrl_reg1_a |-> h.ctrl_reg1_a.bits, ctrl_reg4_a |-> h.ctrl_reg4_a.bits,
     cfg_reg_a_m |-> h.cfg_reg_a_m.bits, cfg_reg_b_m |-> h.cfg_reg_b_m.bits,
     cfg_reg_c_m |-> h.cfg_reg_c_m.bits, temp_cfg_reg_a |-> h.temp_cfg_reg_a.bits,
     accel_odr |-> h.accel_odr]

\* C11: before any operation is called, whichever constructor built the
\* handle, the cache holds ctrl_reg1_a = 0x07, ctrl_reg4_a = 0,
\* cfg_reg_a_m = 0x03, cfg_reg_b_m = 0, cfg_reg_c_m = 0, temp_cfg_reg_a = 0,
\* the three enable bits are low, and nothing has been issued on the bus.
C11_ConstructedHoldsDefaults ==
    ncalls = 0 =>
        /\ CacheFields(handle) =
               [ctrl_reg1_a |-> 7, ctrl_reg4_a |-> 0, cfg_reg_a_m |-> 3,
                cfg_reg_b_m |-> 0, cfg_reg_c_m |-> 0, temp_cfg_reg_a |-> 0,
                accel_odr |-> "None"]
        /\ ~is_high(handle.ctrl_reg4_a, ACCEL_BDU)
        /\ ~is_high(handle.cfg_reg_c_m, MAG_BDU)
        /\ ~is_high(handle.temp_cfg_reg_a, TEMP_EN)
        /\ txs = <<>>
        /\ \A r \in CachedRegs : lastOk[r] = {} /\ lastFailed[r] = {}
        /\ tempWrites = [issued |-> 0, ok |-> 0]

\* C11 witness: a handle just built by new_with_spi.
C11_Witness ==
    /\ ncalls = 0
    /\ pc = "idle"
    /\ handle.iface.kind = "spi"

\* b is a with exactly the bits of mask added.
OnlyMaskAdded(a, mask, b) ==
    \A i \in 0..7 : Bit(b, i) = 1 <=> (Bit(a, i) = 1 \/ Bit(mask, i) = 1)

\* C13: init writes CTRL_REG4_A and then CFG_REG_C_M, once each and nothing
\* else, each byte being the cached value of its register with only the
\* block-data-update bit added; ctrl_reg4_a is assigned once its write has
\* succeeded and before the CFG_REG_C_M write is issued, cfg_reg_c_m only
\* after its own write has succeeded.
C13_InitWritesThenCaches ==
    /\ pc = "init_accel" => txs = <<>> /\ handle = entry
    /\ pc = "init_mag" =>
          /\ Len(txs) = 1 /\ txs[1].ok
          /\ handle.ctrl_reg4_a.bits = txs[1].wr[1]
          /\ handle.cfg_reg_c_m = entry.cfg_reg_c_m
    /\ (op = "init" /\ Len(txs) >= 1) =>
          /\ Sig(txs)[1] = [dev |-> "accel", rw |-> "write", reg |-> "CTRL_REG4_A",
                            wr |-> txs[1].wr]
          /\ OnlyMaskAdded(entry.ctrl_reg4_a.bits, ACCEL_BDU, txs[1].wr[1])
    /\ (op = "init" /\ Len(txs) >= 2) =>
          /\ Sig(txs)[2] = [dev |-> "mag", rw |-> "write", reg |-> "CFG_REG_C_M",
                            wr |-> txs[2].wr]
          /\ OnlyMaskAdded(entry.cfg_reg_c_m.bits, MAG_BDU, txs[2].wr[1])
    /\ (Done("init") /\ result.tag = "Ok") =>
          /\ Len(txs) = 2
          /\ txs[1].ok /\ txs[2].ok
          /\ handle.ctrl_reg4_a.bits = txs[1].wr[1]
          /\ handle.cfg_reg_c_m.bits = txs[2].wr[1]
          /\ BothBduHigh

\* C13 witness: a first init that succeeded.
C13_Witness ==
    /\ Done("init") /\ result.tag = "Ok"
    /\ ~is_high(entry.ctrl_reg4_a, ACCEL_BDU)
    /\ ~is_high(entry.cfg_reg_c_m, MAG_BDU)

\* The byte register reg must hold after the transactions t of a call that
\* started with the handle e: the last accepted write to it, else what e held.
AfterWrites(e, t, reg) ==
    IF WritesTo(t, reg, TRUE) = {}
    THEN CacheOf(e, reg).bits
    ELSE t[CHOOSE i \in WritesTo(t, reg, TRUE) :
               \A j \in WritesTo(t, reg, TRUE) : j <= i].wr[1]

\* C15: an operation that returns an error leaves every cached register at the
\* byte of its last accepted write of the call, or as the call found it: init
\* refused at CTRL_REG4_A changes nothing and never issues the CFG_REG_C_M
\* write; init refused at CFG_REG_C_M keeps ACCEL_BDU cached high and
\* cfg_reg_c_m as it was; temperature_status whose status read fails after an
\* accepted enable write keeps TEMP_EN cached high.
C15_ErrorKeepsAcceptedWrites ==
    (~Busy /\ result.tag = "Err") =>
        /\ \A r \in CachedRegs : CacheOf(handle, r).bits = AfterWrites(entry, txs, r)
        /\ (op = "init" /\ ~txs[1].ok) =>
               /\ Len(txs) = 1
               /\ handle = entry
        /\ (op = "init" /\ txs[1].ok) =>
               /\ Len(txs) = 2
               /\ is_high(handle.ctrl_reg4_a, ACCEL_BDU)
               /\ handle.cfg_reg_c_m = entry.cfg_reg_c_m
        /\ (op = "temperature_status" /\ Len(txs) = 2) =>
               /\ txs[1].rw = "write" /\ txs[1].ok
               /\ is_high(handle.temp_cfg_reg_a, TEMP_EN)

\* C15 witness: the first temperature_status enabled the sensor and then
\* failed at the status read.
C15_Witness ==
    /\ Done("temperature_status") /\ result.tag = "Err"
    /\ Len(txs) = 2
    /\ ~is_high(entry.temp_cfg_reg_a, TEMP_EN)

\* C16: no step takes a cached enable bit from high to low: ACCEL_BDU, MAG_BDU
\* and TEMP_EN stay high once high, so a handle with both block-data-update
\* bits high keeps them.
C16_EnableBitsStayHigh ==
    [][/\ is_high(handle.ctrl_reg4_a, ACCEL_BDU) => is_high(handle'.ctrl_reg4_a, ACCEL_BDU)
       /\ is_high(handle.cfg_reg_c_m, MAG_BDU) => is_high(handle'.cfg_reg_c_m, MAG_BDU)
       /\ is_high(handle.temp_cfg_reg_a, TEMP_EN) => is_high(handle'.temp_cfg_reg_a, TEMP_EN)
       /\ BothBduHigh => BothBduHigh']_vars

\* C16 witness: an init refused at its first write on a handle that had all
\* three bits high.
C16_Witness ==
    /\ Done("init") /\ result.tag = "Err" /\ Len(txs) = 1
    /\ is_high(entry.ctrl_reg4_a, ACCEL_BDU)
    /\ is_high(entry.cfg_reg_c_m, MAG_BDU)
    /\ is_high(entry.temp_cfg_reg_a, TEMP_EN)
    /\ BothBduHigh

\* b and a agree on every bit outside mask.
SameOutside(a, mask, b) ==
    \A i \in 0..7 : Bit(mask, i) = 0 => Bit(b, i) = Bit(a, i)

\* What C17 says of every state: the registers no operation writes hold their
\* construction values.
C17_UnwrittenKeepDefaults ==
    /\ handle.ctrl_reg1_a.bits = 7
    /\ handle.cfg_reg_a_m.bits = 3
    /\ handle.cfg_reg_b_m.bits = 0
    /\ handle.accel_odr = "None"

\* C17: every step changes at most the ACCEL_BDU bit of ctrl_reg4_a and the
\* MAG_BDU bit of cfg_reg_c_m, and these only inside init; at most the TEMP_EN
\* bit of temp_cfg_reg_a, and this only inside temperature_status; the
\* transport and ctrl_reg1_a, cfg_reg_a_m, cfg_reg_b_m and accel_odr never
\* change and hold 0x07, 0x03, 0 and None.
C17_OnlyOwnBitChanges ==
    /\ C17_UnwrittenKeepDefaults
    /\ [][/\ C17_UnwrittenKeepDefaults'
          /\ handle'.iface = handle.iface
          /\ SameOutside(handle.ctrl_reg4_a.bits, ACCEL_BDU, handle'.ctrl_reg4_a.bits)
          /\ SameOutside(handle.cfg_reg_c_m.bits, MAG_BDU, handle'.cfg_reg_c_m.bits)
          /\ SameOutside(handle.temp_cfg_reg_a.bits, TEMP_EN, handle'.temp_cfg_reg_a.bits)
          /\ op' # "init" =>
                /\ handle'.ctrl_reg4_a = handle.ctrl_reg4_a
                /\ handle'.cfg_reg_c_m = handle.cfg_reg_c_m
          /\ op' # "temperature_status" =>
                handle'.temp_cfg_reg_a = handle.temp_cfg_reg_a
          /\ op' = "init" => handle'.temp_cfg_reg_a = handle.temp_cfg_reg_a
          /\ op' = "temperature_status" =>
                /\ handle'.ctrl_reg4_a = handle.ctrl_reg4_a
                /\ handle'.cfg_reg_c_m = handle.cfg_reg_c_m]_vars

\* C17 witness: init and temperature_status have both written their bit.
C17_Witness ==
    /\ BothBduHigh
    /\ is_high(handle.temp_cfg_reg_a, TEMP_EN)
    /\ handle.ctrl_reg4_a.bits = ACCEL_BDU
    /\ handle.cfg_reg_c_m.bits = MAG_BDU
    /\ handle.temp_cfg_reg_a.bits = TEMP_EN

\* C12: the same operations with the same transport answers, called on a
\* handle built by new_with_i2c and on one built by new_with_spi, are at every
\* step at the same position, have issued the same transactions (sub-device,
\* register, kind, byte written, accepted or not, bytes read), hold the same
\* cached registers and have the same Result up to the transport's own error.
C12_TransportsAgree ==
    /\ handle.iface.kind = "i2c"
    /\ twin.handle.iface.kind = "spi"
    /\ twin.pc = pc
    /\ CacheFields(twin.handle) = CacheFields(handle)
    /\ Sig(twin.txs) = Sig(txs)
    /\ Len(twin.txs) = Len(txs)
    /\ \A i \in 1..Len(txs) :
          /\ twin.txs[i].ok = txs[i].ok
          /\ twin.txs[i].data = txs[i].data
    /\ twin.result.tag = result.tag
    /\ twin.result.val = result.val

\* C12 witness: both handles went through init, the second write refused on
\* both, each with its own transport's error.
C12_Witness ==
    /\ Done("init") /\ result.tag = "Err"
    /\ Len(txs) = 2 /\ Len(twin.txs) = 2
    /\ result.err # twin.result.err
    /\ is_high(twin.handle.ctrl_reg4_a, ACCEL_BDU)

\* The enable write has been accepted twice although no write was refused.
EnableWrittenTwice == tempWrites.ok >= 2

\* C14: callers that take turns never are both between the TEMP_EN check and
\* the enable write, never issue the enable write with TEMP_EN cached high,
\* and the transport accepts at most one enable write.
C14_TurnsExcludeDoubleEnable ==
    locked =>
        /\ ~(pc = "ts_write" /\ second.pc = "ts_write")
        /\ pc = "ts_write" => ~is_high(handle.temp_cfg_reg_a, TEMP_EN)
        /\ second.pc = "ts_write" => ~is_high(handle.temp_cfg_reg_a, TEMP_EN)
        /\ ~EnableWrittenTwice

\* C14 witness: without the lock, both callers passed the check with TEMP_EN
\* low and the enable write was issued, and accepted, twice.
C14_Witness ==
    /\ ~locked
    /\ tempWrites = [issued |-> 2, ok |-> 2]
    /\ ncalls = 2
    /\ pc = "ts_read" /\ second.pc = "ts_read"

====
